---- MODULE Spec2Model ----
(***************************************************************************)
(* Model of resolver.go: the JSON resolver (JSON, snakeCase) and the       *)
(* environment resolver (EnvResolver, resolveArgs, visitValue).            *)
(*                                                                         *)
(* Go strings that the code takes apart (flag names, JSON keys) are        *)
(* sequences of one-character strings; strings the code only passes on     *)
(* (environment variable names and values, JSON leaves) are TLA+ strings.  *)
(* A Go `any` is a record [t, s, m]: t is the dynamic type ("nil", "str",  *)
(* "map"), s the string of a "str", m the mapping of a "map".  JSON null   *)
(* decodes to the nil interface, so it is GoNil.                           *)
(***************************************************************************)
EXTENDS Integers, Sequences, FiniteSets, TLC

VARIABLES
    installed,     \* which resolver the run constructed: "JSON" or "Env"
    values,        \* JSON: the decoded document captured by the closure
    flag,          \* JSON: flag.Name of the flag being resolved
    jsonCall,      \* JSON: locals and outcome of the closure's last call
    env,           \* the process environment os.LookupEnv reads
    argsResolved,  \* EnvResolver: the captured boolean, per instance
    target,        \* Value.Target of every positional and argument
    walks,         \* number of resolveArgs calls, per instance
    calls,         \* number of Resolve calls, per instance
    log,           \* Parse and flag LookupEnv calls of the last Resolve, in order
    envCall        \* EnvResolver: arguments and outcome of the last Resolve

vars == <<installed, values, flag, jsonCall,
          env, argsResolved, target, walks, calls, log, envCall>>

jsonVars == <<values, flag, jsonCall>>

envVars == <<env, argsResolved, target, walks, calls, log, envCall>>

----------------------------------------------------------------------------
(* Bounds of the model.                                                    *)

MaxNameLen == 3

MaxDocKeys == 2

MaxCalls == 3

----------------------------------------------------------------------------
(* Go values.                                                              *)

GoNil == [t |-> "nil", s |-> "", m |-> <<>>]

JStr(x) == [t |-> "str", s |-> x, m |-> <<>>]

JMap(f) == [t |-> "map", s |-> "", m |-> f]

NilError == <<>>

Return(raw, err) == [kind |-> "return", raw |-> raw, err |-> err]

Panic == [kind |-> "panic", raw |-> GoNil, err |-> NilError]

----------------------------------------------------------------------------
(* The strings package, on sequences of characters.  Flag names are drawn  *)
(* from Chars; isSeparator, ToTitleRune and ToLowerRune are unicode's on   *)
(* the letters a and b, the underscore and ASCII punctuation.              *)

Chars == {"a", "b", "-", "."}

isSeparator(c) == c \notin {"a", "b", "A", "B", "_"}

ToTitleRune(c) == CASE c = "a" -> "A" [] c = "b" -> "B" [] OTHER -> c

ToLowerRune(c) == CASE c = "A" -> "a" [] c = "B" -> "b" [] OTHER -> c

RECURSIVE TitleFrom(_, _)
TitleFrom(s, i) ==
    IF i > Len(s) THEN <<>>
    ELSE LET prevSep == IF i = 1 THEN TRUE ELSE isSeparator(s[i - 1])
         IN  <<IF prevSep THEN ToTitleRune(s[i]) ELSE s[i]>> \o TitleFrom(s, i + 1)

Title(s) == TitleFrom(s, 1)

RECURSIVE ReplaceAll(_, _, _)
ReplaceAll(s, old, new) ==
    IF s = <<>> THEN <<>>
    ELSE <<IF Head(s) = old THEN new ELSE Head(s)>> \o ReplaceAll(Tail(s), old, new)

RECURSIVE Split(_, _)
Split(s, sep) ==
    IF \E i \in 1..Len(s) : s[i] = sep
    THEN LET i == CHOOSE k \in 1..Len(s) :
                      s[k] = sep /\ \A j \in 1..(k - 1) : s[j] # sep
         IN  <<SubSeq(s, 1, i - 1)>> \o Split(SubSeq(s, i + 1, Len(s)), sep)
    ELSE <<s>>

RECURSIVE Join(_)
Join(parts) == IF parts = <<>> THEN <<>> ELSE Head(parts) \o Join(Tail(parts))

----------------------------------------------------------------------------
(* snakeCase: name[:1] on the empty string is a slice-bounds panic.        *)

snakeCase(name) ==
    LET joined == Join(Split(Title(name), "-"))
    IN  IF Len(joined) = 0
        THEN [panic |-> TRUE, s |-> <<>>]
        ELSE [panic |-> FALSE, s |-> <<ToLowerRune(joined[1])>> \o Tail(joined)]

UnderscoreName(flagName) == ReplaceAll(flagName, "-", "_")

----------------------------------------------------------------------------
(* The closure JSON returns.                                               *)

SkipNilTopLevel(doc, key) == key \in DOMAIN doc /\ doc[key] # GoNil

TopLevel(doc, key) == key \in DOMAIN doc

PartsOnHyphenToo(name) == Split(ReplaceAll(name, "_", "."), ".")

WalkParts(name) == Split(name, ".")

RECURSIVE Walk(_, _)
Walk(raw, parts) ==
    IF parts = <<>> THEN Return(raw, NilError)
    ELSE IF raw.t = "map"
         THEN IF Head(parts) \in DOMAIN raw.m
              THEN Walk(raw.m[Head(parts)], Tail(parts))
              ELSE Return(GoNil, NilError)
         ELSE Return(GoNil, NilError)

JSONResolveFunc(doc, flagName) ==
    LET name == UnderscoreName(flagName)
        snakeCaseName == snakeCase(flagName)
    IN  IF snakeCaseName.panic THEN Panic
        ELSE IF TopLevel(doc, name) THEN Return(doc[name], NilError)
        ELSE IF TopLevel(doc, snakeCaseName.s) THEN Return(doc[snakeCaseName.s], NilError)
        ELSE Walk(JMap(doc), WalkParts(name))

----------------------------------------------------------------------------
(* Inputs of the JSON resolver: the decoded document and the name of the   *)
(* flag being resolved.  Resolve reads both and assigns neither.           *)

Names == UNION {[1..n -> Chars] : n \in 1..MaxNameLen}

Key_a_b == <<"a", "_", "b">>

Key_aB == <<"a", "B">>

Key_a == <<"a">>

Key_b == <<"b">>

Key_us == <<"_">>

Key_adotb == <<"a", ".", "b">>

TopKeys == {Key_a_b, Key_aB, Key_a, Key_us, Key_adotb}

TopVals == {GoNil, JStr("1"), JMap(Key_b :> JStr("2")), JMap(Key_b :> GoNil)}

Docs == UNION {[ks -> TopVals] : ks \in {k \in SUBSET TopKeys : Cardinality(k) <= MaxDocKeys}}

NoJSONCall ==
    [called |-> FALSE, flag |-> <<>>, name |-> <<>>,
     snakeCaseName |-> [panic |-> FALSE, s |-> <<>>], out |-> Return(GoNil, NilError)]

JSONResolve ==
    /\ installed = "JSON"
    /\ jsonCall' = [called |-> TRUE, flag |-> flag,
                    name |-> UnderscoreName(flag),
                    snakeCaseName |-> snakeCase(flag),
                    out |-> JSONResolveFunc(values, flag)]
    /\ UNCHANGED <<installed, values, flag>>
    /\ UNCHANGED envVars

----------------------------------------------------------------------------
(* The process environment read by os.LookupEnv.                           *)

EnvNames == {"FOO", "BAR"}

EnvVals == {"", "1", "2", "x"}

Unset == [ok |-> FALSE, v |-> ""]

EnvEntries == {Unset} \cup {[ok |-> TRUE, v |-> x] : x \in EnvVals}

Environments == [EnvNames -> EnvEntries]

LookupEnv(n) == env[n]

----------------------------------------------------------------------------
(* The grammar the resolver is handed: values with their tags, commands,   *)
(* the Path of each Context, and the flags.  A Value built by the parser   *)
(* always carries a Tag; resolveArgs guards positionals against a nil Tag, *)
(* so pos2 has none.                                                       *)

NoCommand == "nil"

NoValue == "nil"

ValueIds == {"pos1", "pos2", "pos3", "arg1"}

Tag ==
    [pos1 |-> [nil |-> FALSE, Envs |-> <<"FOO", "BAR">>],
     pos2 |-> [nil |-> TRUE, Envs |-> <<>>],
     pos3 |-> [nil |-> FALSE, Envs |-> <<"BAR", "FOO">>],
     arg1 |-> [nil |-> FALSE, Envs |-> <<"BAR">>]]

Command ==
    [cmdA |-> [Positional |-> <<"pos1", "pos2">>, Argument |-> "arg1"],
     cmdB |-> [Positional |-> <<"pos3">>, Argument |-> NoValue]]

Context ==
    [ctx1 |-> [Path |-> <<[Command |-> NoCommand], [Command |-> "cmdA"]>>],
     ctx2 |-> [Path |-> <<[Command |-> NoCommand], [Command |-> "cmdB"]>>],
     ctx3 |-> [Path |-> <<[Command |-> NoCommand], [Command |-> "cmdA"],
                          [Command |-> "cmdB"]>>]]

ContextIds == {"ctx1", "ctx2", "ctx3"}

Flag ==
    [f1 |-> [Tag |-> [Envs |-> <<"FOO", "BAR">>]],
     f2 |-> [Tag |-> [Envs |-> <<"BAR">>]],
     f3 |-> [Tag |-> [Envs |-> <<>>]]]

FlagIds == {"f1", "f2", "f3"}

Resolvers == {1, 2}

----------------------------------------------------------------------------
(* Value.Parse on a one-token stream, for an integer target: a decimal     *)
(* literal is assigned to the target, anything else fails and leaves the   *)
(* target alone.                                                           *)

Parse(raw, tgt) ==
    CASE raw = "1" -> [ok |-> TRUE, target |-> 1]
      [] raw = "2" -> [ok |-> TRUE, target |-> 2]
      [] OTHER -> [ok |-> FALSE, target |-> tgt]

ParseEvent(v, n, l, p) ==
    [op |-> "Parse", who |-> v, env |-> n, raw |-> l.v, ok |-> p.ok]

LookupEvent(f, n, l) ==
    [op |-> "LookupEnv", who |-> f, env |-> n, raw |-> l.v, ok |-> l.ok]

----------------------------------------------------------------------------
(* visitValue: every set name of the value's Envs is parsed into the       *)
(* target, in order, until a Parse fails.                                  *)

ReturnsAfterAnyParse(p) == TRUE

ReturnsAfterParse(p) == ~p.ok

RECURSIVE visitFrom(_, _, _, _)
visitFrom(v, envs, tgt, events) ==
    IF envs = <<>> THEN [target |-> tgt, events |-> events, err |-> NilError]
    ELSE LET n == Head(envs)
             l == LookupEnv(n)
         IN  IF ~l.ok THEN visitFrom(v, Tail(envs), tgt, events)
             ELSE LET p == Parse(l.v, tgt)
                      evs == Append(events, ParseEvent(v, n, l, p))
                  IN  IF ReturnsAfterParse(p)
                      THEN [target |-> p.target, events |-> evs,
                            err |-> IF p.ok THEN NilError ELSE <<"parse error", n, l.v>>]
                      ELSE visitFrom(v, Tail(envs), p.target, evs)

visitValue(v, tgt) == visitFrom(v, Tag[v].Envs, tgt, <<>>)

----------------------------------------------------------------------------
(* resolveArgs: the values visited, in order, and the walk itself.  The    *)
(* error visitValue returns is dropped at both call sites and resolveArgs  *)
(* returns nil.                                                            *)

PathValues(path) ==
    IF path.Command = NoCommand THEN <<>>
    ELSE LET c == Command[path.Command]
         IN  SelectSeq(c.Positional, LAMBDA v : ~Tag[v].nil)
                 \o (IF c.Argument # NoValue THEN <<c.Argument>> ELSE <<>>)

RECURSIVE WalkOrder(_)
WalkOrder(paths) ==
    IF paths = <<>> THEN <<>> ELSE PathValues(Head(paths)) \o WalkOrder(Tail(paths))

RECURSIVE visitAll(_, _, _)
visitAll(vs, tgts, events) ==
    IF vs = <<>> THEN [target |-> tgts, events |-> events, err |-> NilError]
    ELSE LET v == Head(vs)
             r == visitValue(v, tgts[v])
         IN  visitAll(Tail(vs), [tgts EXCEPT ![v] = r.target], events \o r.events)

resolveArgs(paths, tgts) == visitAll(WalkOrder(paths), tgts, <<>>)

----------------------------------------------------------------------------
(* The closure EnvResolver returns.                                        *)

TakenNonEmpty(l) == l.ok /\ l.v # ""

Taken(l) == l.ok

RECURSIVE lookupFrom(_, _, _)
lookupFrom(f, envs, events) ==
    IF envs = <<>> THEN [out |-> Return(GoNil, NilError), events |-> events]
    ELSE LET n == Head(envs)
             l == LookupEnv(n)
             evs == Append(events, LookupEvent(f, n, l))
         IN  IF Taken(l) THEN [out |-> Return(JStr(l.v), NilError), events |-> evs]
             ELSE lookupFrom(f, Tail(envs), evs)

FlagLookup(f) == lookupFrom(f, Flag[f].Tag.Envs, <<>>)

NeedsWalkAlways(resolved) == TRUE

NeedsWalk(resolved) == ~resolved

LookupBeforeWalk(walkEvents, lookupEvents) == lookupEvents \o walkEvents

CallLog(walkEvents, lookupEvents) == walkEvents \o lookupEvents

NoEnvCall ==
    [called |-> FALSE, r |-> 0, c |-> "", f |-> "", walked |-> FALSE,
     before |-> [v \in ValueIds |-> 0], out |-> Return(GoNil, NilError)]

EnvResolve(r, c, f) ==
    /\ installed = "Env"
    /\ calls[1] + calls[2] < MaxCalls
    /\ LET walk == NeedsWalk(argsResolved[r])
           w == IF walk THEN resolveArgs(Context[c].Path, target)
                ELSE [target |-> target, events |-> <<>>, err |-> NilError]
           l == FlagLookup(f)
       IN  /\ argsResolved' = [argsResolved EXCEPT ![r] = TRUE]
           /\ target' = w.target
           /\ walks' = [walks EXCEPT ![r] = @ + (IF walk THEN 1 ELSE 0)]
           /\ log' = CallLog(w.events, l.events)
           /\ envCall' = [called |-> TRUE, r |-> r, c |-> c, f |-> f, walked |-> walk,
                          before |-> target, out |-> l.out]
    /\ calls' = [calls EXCEPT ![r] = @ + 1]
    /\ UNCHANGED <<installed, env>>
    /\ UNCHANGED jsonVars

----------------------------------------------------------------------------
(* Specifications: a run with the JSON resolver, a run with two            *)
(* environment resolvers, and either of the two.                           *)


InitEnvVars ==
    /\ argsResolved = [r \in Resolvers |-> FALSE]
    /\ target = [v \in ValueIds |-> 0]
    /\ walks = [r \in Resolvers |-> 0]
    /\ calls = [r \in Resolvers |-> 0]
    /\ log = <<>>
    /\ envCall = NoEnvCall

InitJSON ==
    /\ installed = "JSON"
    /\ values \in Docs
    /\ flag \in Names
    /\ jsonCall = NoJSONCall
    /\ env = [n \in EnvNames |-> Unset]
    /\ InitEnvVars

InitEnv ==
    /\ installed = "Env"
    /\ values = <<>>
    /\ flag = <<"a">>
    /\ jsonCall = NoJSONCall
    /\ env \in Environments
    /\ InitEnvVars

Init == InitJSON \/ InitEnv

NextJSON == JSONResolve

NextEnv == \E r \in Resolvers, c \in ContextIds, f \in FlagIds : EnvResolve(r, c, f)

Next == NextJSON \/ NextEnv

SpecJSON == InitJSON /\ [][NextJSON]_vars

SpecEnv == InitEnv /\ [][NextEnv]_vars

Spec == Init /\ [][Next]_vars

----------------------------------------------------------------------------
(* Definitions the properties are stated with.                             *)

Range(q) == {q[i] : i \in DOMAIN q}

(* The value a document holds at the end of a path of nested mappings.     *)
RECURSIVE AtPath(_, _)
AtPath(node, segs) ==
    IF segs = <<>> THEN [found |-> TRUE, v |-> node]
    ELSE IF node.t = "map" /\ Head(segs) \in DOMAIN node.m
         THEN AtPath(node.m[Head(segs)], Tail(segs))
         ELSE [found |-> FALSE, v |-> GoNil]

NonEmptySegs(segs) == \A i \in DOMAIN segs : segs[i] # <<>>

(* The reference name mapping: hyphen to underscore, and each              *)
(* hyphen-separated word capitalised, joined, first character lowered.     *)
RefUnderscore(n) == [i \in DOMAIN n |-> IF n[i] = "-" THEN "_" ELSE n[i]]

RefCapitalize(w) == IF w = <<>> THEN <<>> ELSE <<ToTitleRune(w[1])>> \o Tail(w)

RECURSIVE RefJoinCapitalized(_)
RefJoinCapitalized(ws) ==
    IF ws = <<>> THEN <<>> ELSE RefCapitalize(Head(ws)) \o RefJoinCapitalized(Tail(ws))

RefCamel(n) ==
    LET j == RefJoinCapitalized(Split(n, "-"))
    IN  IF j = <<>> THEN <<>> ELSE <<ToLowerRune(j[1])>> \o Tail(j)

NoValueOutcome == Return(GoNil, NilError)

ParseEventsOf(v) == SelectSeq(log, LAMBDA e : e.op = "Parse" /\ e.who = v)

LookupEvents == SelectSeq(log, LAMBDA e : e.op = "LookupEnv")

SetNames(envs) == SelectSeq(envs, LAMBDA n : env[n].ok)

(* The values the walk of a context is to assign: positionals with a Tag   *)
(* and the catch-all argument of every path segment that has a Command.    *)
Eligible(c) ==
    {v \in ValueIds :
        /\ ~Tag[v].nil
        /\ \E i \in DOMAIN Context[c].Path :
              LET cmd == Context[c].Path[i].Command
              IN  /\ cmd # NoCommand
                  /\ \/ v \in Range(Command[cmd].Positional)
                     \/ v = Command[cmd].Argument}

IntOf(raw) == CASE raw = "1" -> 1 [] raw = "2" -> 2 [] OTHER -> 0

FirstCall == envCall.called /\ calls[envCall.r] = 1

----------------------------------------------------------------------------
(* C1: when an environment value of a positional or catch-all argument is  *)
(* rejected by Parse, the first Resolve call returns a non-nil error.      *)
C1_ParseErrorReturned ==
    (FirstCall /\ \E i \in DOMAIN log : log[i].op = "Parse" /\ ~log[i].ok)
        => envCall.out.err # NilError

(* C2 as stated: a hyphenated flag name whose hyphen-separated segments    *)
(* address a path of nested mappings, with neither top-level key present,  *)
(* resolves to the value at the end of that path.                          *)
C2_HyphenPath ==
    jsonCall.called =>
        LET segs == Split(jsonCall.flag, "-")
            at == AtPath(JMap(values), segs)
        IN  (/\ Len(segs) >= 2
             /\ NonEmptySegs(segs)
             /\ RefUnderscore(jsonCall.flag) \notin DOMAIN values
             /\ RefCamel(jsonCall.flag) \notin DOMAIN values
             /\ at.found)
                => jsonCall.out = Return(at.v, NilError)

(* C2 amended: the path separator is the dot.  A flag name whose           *)
(* dot-separated segments (hyphens replaced by underscores) address a path *)
(* of nested mappings, with neither top-level key present, resolves to the *)
(* value at the end of the path; a hyphen separates nothing, so a name     *)
(* without a dot and without a top-level key resolves to no value even     *)
(* when its hyphen-separated segments address such a path.                 *)
C2_DotPath ==
    jsonCall.called =>
        LET u == RefUnderscore(jsonCall.flag)
            dots == Split(u, ".")
            hyphens == Split(jsonCall.flag, "-")
            absent == /\ u \notin DOMAIN values
                      /\ ~jsonCall.snakeCaseName.panic
                      /\ jsonCall.snakeCaseName.s \notin DOMAIN values
        IN  /\ (Len(dots) >= 2 /\ absent /\ AtPath(JMap(values), dots).found)
                  => jsonCall.out = Return(AtPath(JMap(values), dots).v, NilError)
            /\ (/\ Len(dots) = 1
                /\ Len(hyphens) >= 2
                /\ NonEmptySegs(hyphens)
                /\ absent
                /\ AtPath(JMap(values), hyphens).found)
                  => jsonCall.out = NoValueOutcome

C2_Witness ==
    /\ jsonCall.called
    /\ jsonCall.flag = <<"a", ".", "b">>
    /\ Key_adotb \notin DOMAIN values
    /\ Key_a \in DOMAIN values
    /\ jsonCall.out = Return(JStr("2"), NilError)

(* C3: per EnvResolver instance the command-path walk runs at most once,   *)
(* and exactly once as soon as Resolve was called; the has-run state is    *)
(* never reset and an instance that was not called has not run.            *)
C3_WalkOnce ==
    \A r \in Resolvers :
        /\ walks[r] <= 1
        /\ calls[r] >= 1 => (walks[r] = 1 /\ argsResolved[r])
        /\ calls[r] = 0 => (walks[r] = 0 /\ ~argsResolved[r])

C3_Witness ==
    /\ calls[1] >= 2
    /\ walks[1] = 1
    /\ calls[2] = 0
    /\ ~argsResolved[2]

(* C4: on the first Resolve call every positional/argument assignment     *)
(* precedes the lookups of the flag's own variables, every eligible value  *)
(* with a set variable is assigned, and a later call assigns nothing.      *)
C4_WalkBeforeLookup ==
    envCall.called =>
        /\ \A i, j \in DOMAIN log :
              (log[i].op = "Parse" /\ log[j].op = "LookupEnv") => i < j
        /\ FirstCall =>
              \A v \in Eligible(envCall.c) :
                  (\E n \in Range(Tag[v].Envs) : env[n].ok)
                      => \E i \in DOMAIN log : log[i].op = "Parse" /\ log[i].who = v
        /\ ~FirstCall =>
              /\ \A i \in DOMAIN log : log[i].op # "Parse"
              /\ target = envCall.before

C4_Witness ==
    /\ FirstCall
    /\ \E i \in DOMAIN log : log[i].op = "Parse" /\ log[i].who = "arg1"
    /\ \E i \in DOMAIN log : log[i].op = "Parse" /\ log[i].who = "pos1"
    /\ \E j \in DOMAIN log : log[j].op = "LookupEnv" /\ log[j].ok

(* C5: Resolve returns the value of the first set name of the flag's Envs, *)
(* the empty string included, looks at no name past it, and returns        *)
(* (nil, nil) when no name is set.                                         *)
C5_FirstSetWins ==
    envCall.called =>
        LET envs == Flag[envCall.f].Tag.Envs
            set == {i \in DOMAIN envs : env[envs[i]].ok}
        IN  IF set = {}
            THEN /\ envCall.out = NoValueOutcome
                 /\ Len(LookupEvents) = Len(envs)
            ELSE LET first == CHOOSE i \in set : \A j \in set : i <= j
                 IN  /\ envCall.out = Return(JStr(env[envs[first]].v), NilError)
                     /\ Len(LookupEvents) = first
                     /\ \A k \in 1..first : LookupEvents[k].env = envs[k]

C5_Witness ==
    /\ envCall.called
    /\ envCall.f = "f1"
    /\ ~env["FOO"].ok
    /\ env["BAR"] = [ok |-> TRUE, v |-> ""]
    /\ envCall.out = Return(JStr(""), NilError)

(* C6: the lookup order is strict: the underscore key's value if it is a   *)
(* top-level key, else the camel key's value if it is one, and the path    *)
(* walk only when neither is present.                                      *)
C6_LookupOrder ==
    jsonCall.called =>
        LET u == RefUnderscore(jsonCall.flag)
            c == RefCamel(jsonCall.flag)
        IN  /\ u \in DOMAIN values => jsonCall.out = Return(values[u], NilError)
            /\ (u \notin DOMAIN values /\ c \in DOMAIN values)
                  => jsonCall.out = Return(values[c], NilError)

(* C7 as stated: a JSON key present with null, and a variable set to the   *)
(* empty string, never give the outcome of a source with no entry.         *)
C7_Distinguishable ==
    /\ (/\ jsonCall.called
        /\ RefUnderscore(jsonCall.flag) \in DOMAIN values
        /\ values[RefUnderscore(jsonCall.flag)] = GoNil)
          => jsonCall.out # NoValueOutcome
    /\ (envCall.called /\ SetNames(Flag[envCall.f].Tag.Envs) # <<>>)
          => envCall.out # NoValueOutcome

(* C7 amended: the EnvResolver tells a variable set to the empty string    *)
(* (a string value, nil error) from no set variable ((nil, nil)); the JSON *)
(* resolver does not tell a top-level key holding null from a document     *)
(* with no entry at all: the outcome is the same.                          *)
C7_EmptyEnvOnly ==
    /\ (envCall.called /\ SetNames(Flag[envCall.f].Tag.Envs) # <<>>)
          => (envCall.out.raw.t = "str" /\ envCall.out # NoValueOutcome)
    /\ (envCall.called /\ SetNames(Flag[envCall.f].Tag.Envs) = <<>>)
          => envCall.out = NoValueOutcome
    /\ (/\ jsonCall.called
        /\ RefUnderscore(jsonCall.flag) \in DOMAIN values
        /\ values[RefUnderscore(jsonCall.flag)] = GoNil)
          => jsonCall.out = JSONResolveFunc(<<>>, jsonCall.flag)

C7_Witness ==
    /\ jsonCall.called
    /\ jsonCall.flag = <<"a", "-", "b">>
    /\ Key_a_b \in DOMAIN values
    /\ values[Key_a_b] = GoNil
    /\ Key_aB \in DOMAIN values
    /\ values[Key_aB] # GoNil
    /\ jsonCall.out = NoValueOutcome

(* C8: for every flag name both derived keys equal the reference mapping   *)
(* and computing them does not crash.                                      *)
C8_DerivedKeys ==
    jsonCall.called =>
        /\ ~jsonCall.snakeCaseName.panic
        /\ jsonCall.name = RefUnderscore(jsonCall.flag)
        /\ jsonCall.snakeCaseName.s = RefCamel(jsonCall.flag)

(* C9: Resolve never fails, and when neither top-level key is present and  *)
(* the path walk does not reach a value the result is (nil, nil).          *)
C9_NoValueNotError ==
    jsonCall.called =>
        LET u == RefUnderscore(jsonCall.flag)
            c == RefCamel(jsonCall.flag)
        IN  /\ jsonCall.out.kind = "return"
            /\ jsonCall.out.err = NilError
            /\ (/\ u \notin DOMAIN values
                /\ c \notin DOMAIN values
                /\ ~AtPath(JMap(values), Split(u, ".")).found)
                  => jsonCall.out = NoValueOutcome

(* C10 as stated: Parse is called once for every set name of the value's   *)
(* Envs, in order, and after all-successful parses the target holds the    *)
(* value of the last set name.                                             *)
C10_ParseEverySet ==
    FirstCall =>
        \A v \in Eligible(envCall.c) :
            LET evs == ParseEventsOf(v)
                set == SetNames(Tag[v].Envs)
            IN  /\ Len(evs) = Len(set)
                /\ \A i \in DOMAIN evs : evs[i].env = set[i] /\ evs[i].raw = env[set[i]].v
                /\ (evs # <<>> /\ \A i \in DOMAIN evs : evs[i].ok)
                      => target[v] = IntOf(env[set[Len(set)]].v)

(* C10 amended: Parse is called once for every set name, in order, up to   *)
(* and including the first one whose Parse fails; it does not stop after a *)
(* successful parse.  With no failure the target holds the value of the    *)
(* last set name, and with no set name the target is left alone.           *)
C10_ParseUntilFailure ==
    FirstCall =>
        \A v \in Eligible(envCall.c) :
            LET evs == ParseEventsOf(v)
                set == SetNames(Tag[v].Envs)
            IN  /\ Len(evs) <= Len(set)
                /\ \A i \in DOMAIN evs : evs[i].env = set[i] /\ evs[i].raw = env[set[i]].v
                /\ \A i \in DOMAIN evs : i < Len(evs) => evs[i].ok
                /\ Len(evs) < Len(set) => (evs # <<>> /\ ~evs[Len(evs)].ok)
                /\ (evs # <<>> /\ \A i \in DOMAIN evs : evs[i].ok)
                      => target[v] = IntOf(env[set[Len(set)]].v)
                /\ set = <<>> => target[v] = envCall.before[v]

C10_Witness ==
    /\ FirstCall
    /\ envCall.c = "ctx1"
    /\ env["FOO"] = [ok |-> TRUE, v |-> "1"]
    /\ env["BAR"] = [ok |-> TRUE, v |-> "2"]
    /\ Len(ParseEventsOf("pos1")) = 2
    /\ target["pos1"] = 2

====
